---- MODULE Spec2Model ----
(***************************************************************************)
(* Model of the drilling-site candidate engine of geodash/data/mockup.py:  *)
(* generate_potential_wells (rejection sampling around field polygons,     *)
(* attribute and cost model, ranking, truncation, identifier reassignment) *)
(* and calculate_water_demand_gap (demand, supply and gap of every field,  *)
(* priority level, ordering of the records).                               *)
(*                                                                         *)
(* Numbers.  The code works on floats; the model works on integers:        *)
(*   - latitude, longitude and distances are in units of 0.00001 degree,   *)
(*     so 0.0005 deg = 50, 0.001 deg = 100 and 0.027 deg = 2700;           *)
(*   - a distance test sqrt(dx^2 + dy^2) < t is evaluated as               *)
(*     dx^2 + dy^2 < t^2;                                                  *)
(*   - success_probability is in hundredths, expected_water_yield_m3h in   *)
(*     tenths, priority_score in hundredths, costs in THB;                 *)
(*   - cosine and sine of the sampled angles are rationals over 5.         *)
(***************************************************************************)
EXTENDS Integers, Sequences, FiniteSets, TLC

(***************************************************************************)
(* Bounds of the model.                                                    *)
(***************************************************************************)
\* The generator's output sequence is modelled with this period.
RngPeriod == 3
\* Longest list of field polygons passed to a call.
MaxFields == 2
\* Largest num_suggestions passed to a call.
MaxSuggestions == 4
\* Number of calls made one after the other, where calls are repeated.
MaxCalls == 3

(***************************************************************************)
(* Program constants.                                                      *)
(***************************************************************************)
min_distance_deg == 100
max_distance_deg == 2700
MinSpacing == 50
MinWellDistance == 100
AttemptsFactor == 20
cost_per_meter == 1200
\* calculate_water_demand_gap: wells within 0.045 degree are nearby; a
\* surviving well runs 8 hours a day at 8 m3/h; so does a potential well, at
\* its expected yield.
nearby_distance_deg == 4500
avg_yield_m3h == 8
hours_per_day == 8
\* area_deg_sq * 111 * 111 * 6.25 is the area in rai, and 25 m3 per rai
\* and day the demand.
km_per_deg == 111
demand_per_rai == 25
\* The discovery page labels the depth categories "Shallow (<60m)",
\* "Medium (60-80m)" and "Deep (>80m)".
depth_label_shallow == 60
depth_label_deep == 80

(***************************************************************************)
(* Inputs the calls are made with.                                         *)
(***************************************************************************)
\* A square of side 0.01 degree, a small triangle next to it, and a ring of
\* two vertices only.
FieldA ==
    [name |-> "A", region |-> "R1",
     coordinates |-> << <<0, 0>>, <<0, 1000>>, <<1000, 1000>>, <<1000, 0>> >>]

FieldB ==
    [name |-> "B", region |-> "R2",
     coordinates |-> << <<1240, 470>>, <<1240, 530>>, <<1300, 500>> >>]

FieldC ==
    [name |-> "C", region |-> "R2",
     coordinates |-> << <<2000, 2000>>, <<2000, 2100>> >>]

FieldCatalog == {FieldA, FieldB, FieldC}

FieldLists == UNION {[1..n -> FieldCatalog] : n \in 0..MaxFields}

\* The existing-wells table: empty, or two wells close to field A.
WellTables ==
    { << >>,
      << [lat |-> 1100, lon |-> 550, survived |-> TRUE],
         [lat |-> -100, lon |-> 450, survived |-> FALSE] >> }

WellsNear == CHOOSE t \in WellTables : t # << >>

AllArgs == FieldLists \X WellTables \X (0..MaxSuggestions)

\* The arguments of the calls that are repeated.
RepeatArgs ==
    { << <<FieldA>>, << >>, 2 >>,
      << <<FieldB, FieldA>>, WellsNear, 2 >>,
      << <<FieldA, FieldB>>, << >>, 1 >> }

\* A float that is not a number.  No arithmetic is done on it: the model
\* gives each operation of the code that meets it the result the operation
\* has on floats.
NaN == -999999999

IsFinite(v) == v # NaN

\* Further fields, for the calls followed by the demand-gap analysis: a
\* rectangle of 0.007 by 0.019 degree, a ring of three vertices on one
\* latitude and one on one longitude, two triangles without a name (one without a region either), a
\* field without a ring and one with an empty ring.  The bounding box of
\* every ring has an area that is a multiple of 100 (in squares of 0.00001
\* degree).
FieldH ==
    [name |-> "H", region |-> "R1",
     coordinates |-> << <<0, 0>>, <<0, 1900>>, <<700, 1900>>, <<700, 0>> >>]

\* A plot of 0.0001 by 0.0001 degree, whose demand is below 0.05 m3 per day.
FieldT ==
    [name |-> "T", region |-> "R1",
     coordinates |-> << <<0, 0>>, <<0, 10>>, <<10, 10>>, <<10, 0>> >>]

FieldZ ==
    [name |-> "Z", region |-> "R2",
     coordinates |-> << <<3000, 0>>, <<3000, 100>>, <<3000, 200>> >>]

FieldY ==
    [name |-> "Y", region |-> "R2",
     coordinates |-> << <<600, 3000>>, <<700, 3000>>, <<800, 3000>> >>]

FieldU ==
    [region |-> "R3",
     coordinates |-> << <<0, 0>>, <<0, 300>>, <<300, 150>> >>]

FieldV ==
    [coordinates |-> << <<2000, 0>>, <<2000, 600>>, <<2300, 300>> >>]

FieldM == [name |-> "M", region |-> "R3"]

FieldE == [name |-> "E", region |-> "R3", coordinates |-> << >>]

\* Two surviving wells near field H; a table whose only well has no
\* latitude.
WellsTwo ==
    << [lat |-> 1100, lon |-> 550, survived |-> TRUE],
       [lat |-> -150, lon |-> 1200, survived |-> TRUE] >>

\* Four wells around field Y, whose centroid is (0.007, 0.03): two nearby,
\* one at 0.045 degree exactly and one at 0.053 degree.
WellsSpread ==
    << [lat |-> 1100, lon |-> 550, survived |-> TRUE],
       [lat |-> -100, lon |-> 450, survived |-> FALSE],
       [lat |-> 5200, lon |-> 3000, survived |-> TRUE],
       [lat |-> 6000, lon |-> 3000, survived |-> TRUE] >>

WellsNaN == << [lat |-> NaN, lon |-> 550, survived |-> TRUE] >>

\* The arguments of the calls that are followed by the demand-gap analysis.
GapArgs ==
    { << << >>, << >>, 2 >>,
      << <<FieldA>>, << >>, 2 >>,
      << <<FieldA, FieldB>>, WellsNear, 2 >>,
      << <<FieldB, FieldA>>, WellsNear, 3 >>,
      << <<FieldA, FieldB>>, << >>, 1 >>,
      << <<FieldE, FieldA>>, << >>, 0 >>,
      << <<FieldH>>, WellsTwo, 1 >>,
      << <<FieldT>>, << >>, 1 >>,
      << <<FieldZ, FieldA>>, WellsNear, 2 >>,
      << <<FieldY>>, WellsSpread, 1 >>,
      << <<FieldU, FieldV>>, << >>, 2 >>,
      << <<FieldM, FieldC, FieldA>>, << >>, 2 >>,
      << <<FieldM, FieldE, FieldC>>, WellsNear, 2 >>,
      << <<FieldA>>, WellsNaN, 1 >> }

\* Sampled values of rng.uniform(0, 2*pi) in increasing order, as
\* <<5*cos, 5*sin>>: 0, atan(4/3), pi/2, pi, 3*pi/2, 2*pi - atan(3/4).
AngleSamples ==
    << <<5, 0>>, <<3, 4>>, <<0, 5>>, <<-5, 0>>, <<0, -5>>, <<4, -3>> >>

\* Sampled values of rng.uniform(min_distance_deg, max_distance_deg).
OffsetSamples ==
    <<min_distance_deg, min_distance_deg + 20, 750, max_distance_deg - 5>>

\* Each raw output of the generator is one of this many levels of [0, 1):
\* one level for each sampled offset.
RngLevels == Len(OffsetSamples)

(***************************************************************************)
(* Arithmetic helpers.                                                     *)
(***************************************************************************)
Max(a, b) == IF a >= b THEN a ELSE b

Min(a, b) == IF a <= b THEN a ELSE b

RECURSIVE SumSeq(_)
SumSeq(s) == IF s = << >> THEN 0 ELSE Head(s) + SumSeq(Tail(s))

SeqMax(s) == CHOOSE x \in {s[i] : i \in 1..Len(s)} :
                 \A j \in 1..Len(s) : s[j] <= x

SeqMin(s) == CHOOSE x \in {s[i] : i \in 1..Len(s)} :
                 \A j \in 1..Len(s) : s[j] >= x

\* Python's round(): to the nearest, a tie to the even neighbour.
\* The value rounded is num / den with den > 0 and num >= 0.
RoundHalfEven(num, den) ==
    LET q == num \div den
        r == num % den
    IN  IF 2 * r < den THEN q
        ELSE IF 2 * r > den THEN q + 1
        ELSE IF q % 2 = 0 THEN q ELSE q + 1

\* dict.get(key, default).
get(field, key, default) ==
    IF key \in DOMAIN field THEN field[key] ELSE default

Dist2(lat1, lon1, lat2, lon2) ==
    (lat1 - lat2) * (lat1 - lat2) + (lon1 - lon2) * (lon1 - lon2)

(***************************************************************************)
(* The dashboard script: the Rain Data Analysis page and its cache of the   *)
(* coordinates of the last rain query.  Latitudes and longitudes are in     *)
(* units of 0.001 degree, distances in millimetres.                        *)
(***************************************************************************)
\* r = 6371, the radius of the earth in km.
earth_radius_km == 6371

\* math.radians of 0.001 degree, in 1e-9 radian.
nanorad_per_unit == 17453

\* if distance_km < 1.0
cache_range_km == 1

\* Python's None, where the other values are dicts, frames or tuples.
None == [None |-> TRUE]

\* The value of the option menu: the rain page and one of the other pages
\* with the standard layout.
Pages == {"Rain Data Analysis", "General Dashboard"}

\* map_state's last click: points A, A + 0.005, A + 0.008, A + 0.009 and
\* A + 0.020 degree on the meridian of 102 degrees, and a point on the
\* equator.
Clicks ==
    {[lat |-> a, lng |-> 102000] : a \in {0, 16000, 16005, 16008, 16009, 16020}}

\* calculate_distance_km in millimetres, for two points on one meridian:
\* dlng = 0, so a = sin(dlat/2)**2 and c * r = |dlat| * r.
calculate_distance_km(lat1, lng1, lat2, lng2) ==
    ((earth_radius_km * nanorad_per_unit) \div 1000)
        * (IF lat1 >= lat2 THEN lat1 - lat2 ELSE lat2 - lat1)

\* rain_service.get_rain_data(lat, lng, days_back=365): a frame of the
\* rainfall at the point, or None when the request fails.
get_rain_data(lat, lng, ok) ==
    IF ok THEN [lat |-> lat, lng |-> lng, days_back |-> 365] ELSE None

\* rain_service.get_rain_statistics(rain_data)
get_rain_statistics(rain_data) == [statistics_of |-> rain_data]

\* st.session_state.<key> = value
setitem(state, key, value) ==
    [k \in DOMAIN state \cup {key} |-> IF k = key THEN value ELSE state[k]]

\* No run of the script yet.
NoRun ==
    [selected |-> "", last_click |-> None, using_cached |-> FALSE,
     queried |-> None, rain_data |-> None, rain_stats |-> None,
     button_queried |-> None, charted |-> None, rerun |-> FALSE]

(***************************************************************************)
(* State.                                                                  *)
(***************************************************************************)
VARIABLES
    bits,               \* output sequence of np.random.default_rng(42)
    pc,                 \* position: idle, for, while, rank, done, gap
    field_polygons,     \* argument
    existing_wells_df,  \* argument
    num_suggestions,    \* argument
    rng,                \* generator state: position in bits
    potential_wells,    \* accepted candidates, in order of acceptance
    field_idx,          \* index of the field being sampled (1-based)
    field_well_count,   \* candidates accepted for the current field
    attempts,           \* attempts made for the current field
    potential_df,       \* the value returned
    total_attempts,     \* attempts made in this call, over all fields
    history,            \* the calls that have returned: arguments and result
    demand_df,          \* the value returned by calculate_water_demand_gap
    session_state,      \* st.session_state of the dashboard: key -> value
    script_run          \* what the last run of the dashboard script did

vars == <<bits, pc, field_polygons, existing_wells_df, num_suggestions, rng,
          potential_wells, field_idx, field_well_count, attempts,
          potential_df, total_attempts, history, demand_df,
          session_state, script_run>>

(***************************************************************************)
(* The random generator.                                                   *)
(***************************************************************************)
\* np.random.default_rng(42): a generator at the start of its sequence.
default_rng == 0

\* The k-th raw output after the current position, in 0..RngLevels-1.
Draw(k) == bits[(rng + k) % RngPeriod]

\* rng.uniform(0, 2*pi): <<5*cos, 5*sin>> of the sampled angle.
UniformAngle(raw) == AngleSamples[(raw * Len(AngleSamples)) \div RngLevels + 1]

\* rng.uniform(min_distance_deg, max_distance_deg).
UniformOffset(raw) ==
    OffsetSamples[(raw * Len(OffsetSamples)) \div RngLevels + 1]

\* rng.uniform(lo, hi) and rng.integers(lo, hi): lo included, hi excluded.
Uniform(raw, lo, hi) == lo + ((hi - lo) * raw) \div RngLevels

\* rng.choice(['shallow', 'medium', 'deep'], p=[0.25, 0.50, 0.25]).
ChoiceDepth(raw) ==
    IF 4 * raw < RngLevels THEN "shallow"
    ELSE IF 4 * raw < 3 * RngLevels THEN "medium"
    ELSE "deep"

(***************************************************************************)
(* Geometry.                                                               *)
(***************************************************************************)
\* Ray casting as the dashboard pages implement it, over (lon, lat): whether
\* the edge p1 -> p2 is crossed by the ray from (x, y).  xinters is
\* (y - p1y) * (p2x - p1x) / (p2y - p1y) + p1x; x <= xinters is decided on
\* the cross product, with the sign of p2y - p1y.
EdgeCrossed(x, y, p1x, p1y, p2x, p2y) ==
    /\ y > Min(p1y, p2y)
    /\ y <= Max(p1y, p2y)
    /\ x <= Max(p1x, p2x)
    /\ \/ p1x = p2x
       \/ IF p2y > p1y
          THEN (x - p1x) * (p2y - p1y) <= (y - p1y) * (p2x - p1x)
          ELSE (x - p1x) * (p2y - p1y) >= (y - p1y) * (p2x - p1x)

point_in_polygon(lat, lon, polygon_coords) ==
    LET n == Len(polygon_coords)
        crossed == {i \in 1..n :
                       EdgeCrossed(lon, lat,
                                   polygon_coords[i][2], polygon_coords[i][1],
                                   polygon_coords[(i % n) + 1][2],
                                   polygon_coords[(i % n) + 1][1])}
    IN  Cardinality(crossed) % 2 = 1

\* _point_in_polygon_simple: binds x, y and n and then falls off its end, so
\* it returns None, which the caller's `if inside_field:` takes as false.
point_in_polygon_simple(lat, lon, polygon_coords) ==
    LET x == lon
        y == lat
        n == Len(polygon_coords)
    IN  FALSE

lats(coords) == [i \in 1..Len(coords) |-> coords[i][1]]

lons(coords) == [i \in 1..Len(coords) |-> coords[i][2]]

centroid_lat(coords) == SumSeq(lats(coords)) \div Len(coords)

centroid_lon(coords) == SumSeq(lons(coords)) \div Len(coords)

field_height(coords) == SeqMax(lats(coords)) - SeqMin(lats(coords))

field_width(coords) == SeqMax(lons(coords)) - SeqMin(lons(coords))

\* As ring_skipped, but a ring of two vertices is sampled.
ring_skipped_below_two(coords) == coords = << >> \/ Len(coords) < 2

\* if not coords or len(coords) < 3: continue
ring_skipped(coords) == coords = << >> \/ Len(coords) < 3

(***************************************************************************)
(* Quota and attempt budget.                                               *)
(***************************************************************************)
\* As wells_per_field, but the share of a field is rounded up.
wells_per_field_rounded_up ==
    Max(1, (num_suggestions + Len(field_polygons) - 1) \div Len(field_polygons))

\* wells_per_field = max(1, num_suggestions // len(field_polygons))
wells_per_field == Max(1, num_suggestions \div Len(field_polygons))

max_attempts == wells_per_field * AttemptsFactor

(***************************************************************************)
(* Identifiers: f'POT-{i:04d}'.                                            *)
(***************************************************************************)
RECURSIVE Digits(_)
Digits(i) == IF i < 10 THEN <<i>> ELSE Digits(i \div 10) \o <<i % 10>>

RECURSIVE ZeroPad(_, _)
ZeroPad(ds, width) == IF Len(ds) >= width THEN ds ELSE ZeroPad(<<0>> \o ds, width)

PotId(i) == <<"POT-">> \o ZeroPad(Digits(i), 4)

(***************************************************************************)
(* One candidate of the sampling loop: position, checks, attributes.       *)
(***************************************************************************)
\* The position sampled by the attempt that starts at the generator's
\* current position, for the ring coords.
buffer_distance(coords) ==
    Max(field_height(coords), field_width(coords)) \div 2
        + UniformOffset(Draw(1))

pot_lat(coords) ==
    centroid_lat(coords) + (buffer_distance(coords) * UniformAngle(Draw(0))[1]) \div 5

pot_lon(coords) ==
    centroid_lon(coords) + (buffer_distance(coords) * UniformAngle(Draw(0))[2]) \div 5

\* As TooCloseToPotentials, but only the candidate accepted last is looked at.
TooCloseToLast(lat, lon) ==
    /\ Len(potential_wells) > 0
    /\ Dist2(potential_wells[Len(potential_wells)].lat,
             potential_wells[Len(potential_wells)].lon, lat, lon)
           < MinSpacing * MinSpacing

\* min(...) over the accepted candidates < 0.0005.
TooCloseToPotentials(lat, lon) ==
    /\ Len(potential_wells) > 0
    /\ \E i \in 1..Len(potential_wells) :
          Dist2(potential_wells[i].lat, potential_wells[i].lon, lat, lon)
              < MinSpacing * MinSpacing

\* As TooCloseToExisting, but with the spacing of candidates as threshold.
TooCloseToExistingBySpacing(lat, lon) ==
    /\ existing_wells_df # << >>
    /\ \E i \in 1..Len(existing_wells_df) :
          Dist2(existing_wells_df[i].lat, existing_wells_df[i].lon, lat, lon)
              < MinSpacing * MinSpacing

\* np.min(...) over the existing wells < 0.001.  The distances are a
\* pandas Series, whose minimum leaves out the distances that are NaN (and
\* is NaN, which is less than nothing, when all are).
TooCloseToExisting(lat, lon) ==
    /\ existing_wells_df # << >>
    /\ \E i \in 1..Len(existing_wells_df) :
          /\ IsFinite(existing_wells_df[i].lat)
          /\ IsFinite(existing_wells_df[i].lon)
          /\ Dist2(existing_wells_df[i].lat, existing_wells_df[i].lon, lat, lon)
                 < MinWellDistance * MinWellDistance

Rejected(coords) ==
    \/ point_in_polygon_simple(pot_lat(coords), pot_lon(coords), coords)
    \/ TooCloseToPotentials(pot_lat(coords), pot_lon(coords))
    \/ TooCloseToExisting(pot_lat(coords), pot_lon(coords))

\* The attributes drawn for a depth category: depth in whole metres
\* (rng.integers), base_probability in 1/10000 and base_yield in 1/1000
\* (rng.uniform), before rounding.
depth_of(depth_category, raw) ==
    IF depth_category = "shallow" THEN Uniform(raw, 40, 60)
    ELSE IF depth_category = "medium" THEN Uniform(raw, 60, 100)
    ELSE Uniform(raw, 100, 150)

base_probability_of(depth_category, raw) ==
    IF depth_category = "shallow" THEN Uniform(raw, 5500, 7000)
    ELSE IF depth_category = "medium" THEN Uniform(raw, 7000, 8500)
    ELSE Uniform(raw, 7500, 9000)

\* As base_yield_of, but the medium category draws from the deep range.
base_yield_of_deep_for_medium(depth_category, raw) ==
    IF depth_category = "shallow" THEN Uniform(raw, 4000, 7000)
    ELSE Uniform(raw, 10000, 16000)

base_yield_of(depth_category, raw) ==
    IF depth_category = "shallow" THEN Uniform(raw, 4000, 7000)
    ELSE IF depth_category = "medium" THEN Uniform(raw, 7000, 12000)
    ELSE Uniform(raw, 10000, 16000)

\* As drilling_cost_of, but the first 40 metres are not charged.
drilling_cost_below_40(depth) == (depth - 40) * cost_per_meter

\* drilling_cost = depth * cost_per_meter
drilling_cost_of(depth) == depth * cost_per_meter

\* Whether a depth in metres is in the range that the label of its category
\* on the discovery page gives.
depth_label_holds(depth_category, depth) ==
    IF depth_category = "shallow" THEN depth < depth_label_shallow
    ELSE IF depth_category = "medium"
         THEN depth >= depth_label_shallow /\ depth <= depth_label_deep
    ELSE depth > depth_label_deep

\* The record appended for an accepted candidate; pump_cost is in THB.
NewWell(field, idx) ==
    LET coords == get(field, "coordinates", << >>)
        depth_category == ChoiceDepth(Draw(2))
        depth == depth_of(depth_category, Draw(3))
        base_probability == base_probability_of(depth_category, Draw(4))
        base_yield == base_yield_of(depth_category, Draw(5))
        drilling_cost == drilling_cost_of(depth)
        pump_cost == Uniform(Draw(6), 30000, 60000)
        total_cost == drilling_cost + pump_cost
    IN  [potential_id |-> PotId(Len(potential_wells) + 1),
         lat |-> pot_lat(coords),
         lon |-> pot_lon(coords),
         field_name |-> get(field, "name", "Unknown"),
         region |-> get(field, "region", "Unknown"),
         recommended_depth_m |-> depth,
         depth_category |-> depth_category,
         success_probability |-> RoundHalfEven(base_probability, 100),
         expected_water_yield_m3h |-> RoundHalfEven(base_yield, 100),
         estimated_cost_thb |-> total_cost,
         drilling_cost_thb |-> drilling_cost,
         priority_score |-> RoundHalfEven(base_probability * base_yield, total_cost),
         \* not a column of the table: the index of the field of the
         \* enumerate() loop the candidate was accepted for
         source_idx |-> idx]

(***************************************************************************)
(* Ranking, truncation, identifier reassignment.                           *)
(***************************************************************************)
\* sort_values('priority_score', ascending=False): equal scores keep the
\* order of acceptance (the tables of the model are short enough for the
\* sort to be an insertion sort).
RECURSIVE InsertDesc(_, _)
InsertDesc(sorted, w) ==
    IF sorted = << >> THEN <<w>>
    ELSE IF Head(sorted).priority_score >= w.priority_score
         THEN <<Head(sorted)>> \o InsertDesc(Tail(sorted), w)
         ELSE <<w>> \o sorted

\* As sort_values, but ascending.
RECURSIVE InsertAsc(_, _)
InsertAsc(sorted, w) ==
    IF sorted = << >> THEN <<w>>
    ELSE IF Head(sorted).priority_score <= w.priority_score
         THEN <<Head(sorted)>> \o InsertAsc(Tail(sorted), w)
         ELSE <<w>> \o sorted

RECURSIVE sort_values_ascending(_)
sort_values_ascending(df) ==
    IF df = << >> THEN << >>
    ELSE InsertAsc(sort_values_ascending(SubSeq(df, 1, Len(df) - 1)), df[Len(df)])

RECURSIVE sort_values(_)
sort_values(df) ==
    IF df = << >> THEN << >>
    ELSE InsertDesc(sort_values(SubSeq(df, 1, Len(df) - 1)), df[Len(df)])

\* As head, but nothing is cut.
head_all(df, n) == df

\* DataFrame.head(n): the first n rows; all but the last -n for n < 0.
head(df, n) ==
    IF n >= 0 THEN SubSeq(df, 1, Min(n, Len(df)))
    ELSE SubSeq(df, 1, Max(0, Len(df) + n))

\* As reindex_ids, but the identifiers given at acceptance are kept.
keep_ids(df) == df

\* As reindex_ids, but the identifiers are written to the column field_name
\* as well.
reindex_ids_and_names(df) ==
    [i \in 1..Len(df) |->
        [df[i] EXCEPT !.potential_id = PotId(i), !.field_name = PotId(i)]]

\* potential_df['potential_id'] = [f'POT-{i+1:04d}' for i in range(len(...))]
reindex_ids(df) ==
    [i \in 1..Len(df) |-> [df[i] EXCEPT !.potential_id = PotId(i)]]

ranked(df) ==
    IF df = << >> THEN << >>
    ELSE reindex_ids(head(sort_values(df), num_suggestions))

(***************************************************************************)
(* calculate_water_demand_gap.                                             *)
(*                                                                         *)
(* Numbers.  With lat_span and lon_span in units of 0.00001 degree,        *)
(*   area_rai            = lat_span * lon_span * 111 * 111 * 6.25 / 10^10  *)
(*   water_demand_m3_day = area_rai * 25                                   *)
(* so that, a = lat_span * lon_span / 100 being whole for the rings of the *)
(* model, area_rai = a * 111 * 111 / 16000000 and the demand is            *)
(* a * 111 * 111 / 640000.  Demand, supply and gaps are kept exactly, as   *)
(* numerators over 640000, until the record rounds them; the record holds  *)
(* area_rai in hundredths and the volumes and the percentage in tenths.    *)
(***************************************************************************)
\* 10^8 / 6.25: the denominator of area_rai over a * 111 * 111.
rai_den == 16000000

\* The denominator of the volumes in m3 per day.
volume_den == rai_den \div demand_per_rai

\* As gap_ring_skipped, but a ring of two vertices is analysed.
gap_ring_skipped_below_two(coords) == coords = << >> \/ Len(coords) < 2

\* As gap_ring_skipped, but only an empty ring is skipped.
gap_ring_skipped_empty_only(coords) == coords = << >>

\* if not coords or len(coords) < 3: continue
gap_ring_skipped(coords) == coords = << >> \/ Len(coords) < 3

\* lat_span * lon_span, in hundreds of squares of 0.00001 degree.
area_deg_sq(coords) == (field_height(coords) * field_width(coords)) \div 100

\* The area in rai, in hundredths as round(area_rai, 2) gives it.
area_rai_rounded(coords) ==
    RoundHalfEven(area_deg_sq(coords) * km_per_deg * km_per_deg,
                  rai_den \div 100)

\* water_demand_m3_day, over volume_den.
water_demand(coords) == area_deg_sq(coords) * km_per_deg * km_per_deg

\* As nearby_wells, but a well at 0.045 degree is nearby too.
nearby_wells_inclusive(coords, wells) ==
    {i \in 1..Len(wells) :
        /\ IsFinite(wells[i].lat)
        /\ IsFinite(wells[i].lon)
        /\ Dist2(wells[i].lat, wells[i].lon,
                 centroid_lat(coords), centroid_lon(coords))
               <= nearby_distance_deg * nearby_distance_deg}

\* existing_wells_df[distances < 0.045]: the rows of the nearby wells.  A
\* distance that is NaN is less than nothing.
nearby_wells(coords, wells) ==
    {i \in 1..Len(wells) :
        /\ IsFinite(wells[i].lat)
        /\ IsFinite(wells[i].lon)
        /\ Dist2(wells[i].lat, wells[i].lon,
                 centroid_lat(coords), centroid_lon(coords))
               < nearby_distance_deg * nearby_distance_deg}

\* nearby_wells[nearby_wells['survived'] == True]
successful_wells(coords, wells) ==
    {i \in nearby_wells(coords, wells) : wells[i].survived = TRUE}

\* current_supply_m3_day, over volume_den.
current_supply(coords, wells) ==
    Cardinality(successful_wells(coords, wells))
        * avg_yield_m3h * hours_per_day * volume_den

\* As water_gap, but not cut at zero.
water_gap_unclamped(coords, wells) ==
    water_demand(coords) - current_supply(coords, wells)

\* water_gap_m3_day = max(0, demand - supply), over volume_den.
water_gap(coords, wells) ==
    Max(0, water_demand(coords) - current_supply(coords, wells))

\* round(1000 * a / b) for 0 <= a <= b and b > 0, by long division (1000 * a
\* is not formed).
RoundPerMille(a, b) ==
    LET q1 == (10 * a) \div b
        r1 == (10 * a) % b
        q2 == (10 * r1) \div b
        r2 == (10 * r1) % b
        q3 == (10 * r2) \div b
        r3 == (10 * r2) % b
        q  == 100 * q1 + 10 * q2 + q3
    IN  IF 2 * r3 < b THEN q
        ELSE IF 2 * r3 > b THEN q + 1
        ELSE IF q % 2 = 0 THEN q ELSE q + 1

\* As gap_percentage_rounded, but a field without demand has a gap of 100%.
gap_percentage_full_without_demand(coords, wells) ==
    IF water_demand(coords) > 0
    THEN RoundPerMille(water_gap(coords, wells), water_demand(coords))
    ELSE 1000

\* round(gap_percentage, 1), in tenths of a percent, where
\* gap_percentage = (gap / demand * 100) if demand > 0 else 0.
gap_percentage_rounded(coords, wells) ==
    IF water_demand(coords) > 0
    THEN RoundPerMille(water_gap(coords, wells), water_demand(coords))
    ELSE 0

\* gap_percentage > 10 * tens, on the value before it is rounded:
\* gap / demand * 100 > 10 * tens, where there is a demand.
gap_percentage_above(coords, wells, tens) ==
    /\ water_demand(coords) > 0
    /\ 10 * water_gap(coords, wells) > tens * water_demand(coords)

\* potential_wells_df[potential_wells_df['field_name'] == field.get('name',
\* 'Unknown')]: the rows of the potential wells of the field.
field_potential(field, potential_wells_df) ==
    {i \in 1..Len(potential_wells_df) :
        potential_wells_df[i].field_name = get(field, "name", "Unknown")}

\* Sum of a column over a set of rows.
RECURSIVE SumRows(_, _, _)
SumRows(df, rows, column) ==
    IF rows = {} THEN 0
    ELSE LET i == CHOOSE r \in rows : TRUE
         IN  df[i][column] + SumRows(df, rows \ {i}, column)

\* potential_supply_m3_day = field_potential['expected_water_yield_m3h']
\* .sum() * 8, in tenths (0 without potential wells).
potential_supply(field, potential_wells_df) ==
    SumRows(potential_wells_df, field_potential(field, potential_wells_df),
            "expected_water_yield_m3h") * hours_per_day

\* gap_after_drilling = max(0, water_gap - potential_supply) with potential
\* wells of the field, water_gap without; over volume_den.
gap_after_drilling(field, wells, potential_wells_df) ==
    IF field_potential(field, potential_wells_df) # {}
    THEN Max(0, water_gap(get(field, "coordinates", << >>), wells)
                  - potential_supply(field, potential_wells_df)
                        * (volume_den \div 10))
    ELSE water_gap(get(field, "coordinates", << >>), wells)

\* As priority_level, but the levels Critical and High do not ask for a
\* potential well.
priority_level_by_gap_only(gap_over_70, gap_over_50, gap_over_30, num_potential) ==
    IF gap_over_70 THEN "Critical"
    ELSE IF gap_over_50 THEN "High"
    ELSE IF gap_over_30 THEN "Medium"
    ELSE "Low"

\* The if/elif chain on gap_percentage and num_potential.
priority_level(gap_over_70, gap_over_50, gap_over_30, num_potential) ==
    IF gap_over_70 /\ num_potential > 0 THEN "Critical"
    ELSE IF gap_over_50 /\ num_potential > 0 THEN "High"
    ELSE IF gap_over_30 THEN "Medium"
    ELSE "Low"

\* The record appended for a field.
GapRecord(field, idx, wells, potential_wells_df) ==
    LET coords == get(field, "coordinates", << >>)
        num_potential == Cardinality(field_potential(field, potential_wells_df))
    IN  [field_name |-> get(field, "name", "Unknown"),
         region |-> get(field, "region", "Unknown"),
         area_rai |-> area_rai_rounded(coords),
         water_demand_m3_day |->
             RoundHalfEven(water_demand(coords), volume_den \div 10),
         current_supply_m3_day |->
             RoundHalfEven(current_supply(coords, wells), volume_den \div 10),
         water_gap_m3_day |->
             RoundHalfEven(water_gap(coords, wells), volume_den \div 10),
         gap_percentage |-> gap_percentage_rounded(coords, wells),
         existing_wells_nearby |-> Cardinality(nearby_wells(coords, wells)),
         successful_wells_nearby |->
             Cardinality(successful_wells(coords, wells)),
         potential_wells_available |-> num_potential,
         potential_additional_supply_m3_day |->
             potential_supply(field, potential_wells_df),
         gap_after_drilling |->
             RoundHalfEven(gap_after_drilling(field, wells, potential_wells_df),
                           volume_den \div 10),
         priority_level |->
             priority_level(gap_percentage_above(coords, wells, 7),
                            gap_percentage_above(coords, wells, 5),
                            gap_percentage_above(coords, wells, 3),
                            num_potential),
         \* not a column of the table: the index of the field in the list
         source_idx |-> idx]

\* The list demand_analysis after the first k fields of the loop.
RECURSIVE demand_analysis(_, _, _, _)
demand_analysis(fields, k, wells, potential_wells_df) ==
    IF k = 0 THEN << >>
    ELSE IF gap_ring_skipped(get(fields[k], "coordinates", << >>))
         THEN demand_analysis(fields, k - 1, wells, potential_wells_df)
         ELSE Append(demand_analysis(fields, k - 1, wells, potential_wells_df),
                     GapRecord(fields[k], k, wells, potential_wells_df))

\* df.sort_values('gap_percentage', ascending=False): equal percentages keep
\* the order of the fields.
RECURSIVE InsertGapDesc(_, _)
InsertGapDesc(sorted, r) ==
    IF sorted = << >> THEN <<r>>
    ELSE IF Head(sorted).gap_percentage >= r.gap_percentage
         THEN <<Head(sorted)>> \o InsertGapDesc(Tail(sorted), r)
         ELSE <<r>> \o sorted

\* As sort_gap_values, but the order of the fields is kept.
sort_gap_values_not(df) == df

RECURSIVE sort_gap_values(_)
sort_gap_values(df) ==
    IF df = << >> THEN << >>
    ELSE InsertGapDesc(sort_gap_values(SubSeq(df, 1, Len(df) - 1)), df[Len(df)])

(***************************************************************************)
(* Actions.                                                                *)
(***************************************************************************)
Init ==
    /\ bits \in [0..(RngPeriod - 1) -> 0..(RngLevels - 1)]
    /\ pc = "idle"
    /\ field_polygons = << >>
    /\ existing_wells_df = << >>
    /\ num_suggestions = 0
    /\ rng = default_rng
    /\ potential_wells = << >>
    /\ field_idx = 0
    /\ field_well_count = 0
    /\ attempts = 0
    /\ potential_df = << >>
    /\ total_attempts = 0
    /\ history = << >>
    /\ demand_df = << >>
    /\ session_state = [k \in {} |-> << >>]
    /\ script_run = NoRun

\* As rng_at_entry, but the generator is one shared by the calls.
rng_shared == rng

\* rng = np.random.default_rng(42), first statement of the call.
rng_at_entry == default_rng

Returned(fp, ew, n, result) == [args |-> <<fp, ew, n>>, result |-> result]

\* Entry of generate_potential_wells(fp, ew, n): the generator is created
\* and seeded, the list of candidates is empty; with no field polygon an
\* empty table is returned at once.
Enter(fp, ew, n) ==
    /\ field_polygons' = fp
    /\ existing_wells_df' = ew
    /\ num_suggestions' = n
    /\ rng' = rng_at_entry
    /\ potential_wells' = << >>
    /\ field_idx' = 0
    /\ field_well_count' = 0
    /\ attempts' = 0
    /\ total_attempts' = 0
    /\ potential_df' = << >>
    /\ IF fp = << >>
       THEN /\ pc' = "done"
            /\ history' = Append(history, Returned(fp, ew, n, << >>))
       ELSE /\ pc' = "for"
            /\ UNCHANGED history
    /\ UNCHANGED <<session_state, script_run, bits, demand_df>>

\* A call of generate_potential_wells.
generate_potential_wells ==
    /\ pc = "idle"
    /\ \E a \in AllArgs : Enter(a[1], a[2], a[3])

\* A call, the first or after an earlier call has returned.
call_again ==
    /\ pc \in {"idle", "done"}
    /\ Len(history) < MaxCalls
    /\ \E a \in RepeatArgs : Enter(a[1], a[2], a[3])

\* As attempts_at_field_start, but the count of the field before is kept.
attempts_carried_over == attempts

\* attempts = 0, before the while loop of every field.
attempts_at_field_start == 0

\* Head of `for field_idx, field in enumerate(field_polygons)`: the next
\* field, skipped when its ring has fewer than 3 vertices; after the last
\* field the loop is left.
ForField ==
    /\ pc = "for"
    /\ IF field_idx = Len(field_polygons)
       THEN /\ pc' = "rank"
            /\ UNCHANGED <<field_idx, field_well_count, attempts>>
       ELSE /\ field_idx' = field_idx + 1
            /\ IF ring_skipped(get(field_polygons[field_idx + 1],
                                   "coordinates", << >>))
               THEN /\ pc' = "for"
                    /\ UNCHANGED <<field_well_count, attempts>>
               ELSE /\ pc' = "while"
                    /\ field_well_count' = 0
                    /\ attempts' = attempts_at_field_start
    /\ UNCHANGED <<session_state, script_run, bits, field_polygons, existing_wells_df, num_suggestions,
                   rng, potential_wells, potential_df, total_attempts,
                   history, demand_df>>

\* As WhileCondition, but the quota is compared with <=.
WhileConditionPastQuota ==
    field_well_count <= wells_per_field /\ attempts < max_attempts

\* while field_well_count < wells_per_field and attempts < max_attempts
WhileCondition ==
    field_well_count < wells_per_field /\ attempts < max_attempts

\* As attempts_incremented, but the increment is the last statement of the
\* body, which an iteration that ends with `continue` does not reach.
attempts_incremented_last(rejected) ==
    IF rejected THEN attempts ELSE attempts + 1

\* attempts += 1, the first statement of the body: every iteration counts.
attempts_incremented(rejected) == attempts + 1

\* One iteration of the while loop.
Attempt ==
    /\ pc = "while"
    /\ WhileCondition
    /\ attempts' =
           attempts_incremented(
               Rejected(get(field_polygons[field_idx], "coordinates", << >>)))
    /\ total_attempts' = total_attempts + 1
    /\ IF Rejected(get(field_polygons[field_idx], "coordinates", << >>))
       THEN /\ rng' = (rng + 2) % RngPeriod
            /\ UNCHANGED <<potential_wells, field_well_count>>
       ELSE /\ rng' = (rng + 7) % RngPeriod
            /\ potential_wells' =
                   Append(potential_wells,
                          NewWell(field_polygons[field_idx], field_idx))
            /\ field_well_count' = field_well_count + 1
    /\ UNCHANGED <<session_state, script_run, bits, pc, field_polygons, existing_wells_df,
                   num_suggestions, field_idx, potential_df, history,
                   demand_df>>

\* The while condition is false: on to the next field.
EndWhile ==
    /\ pc = "while"
    /\ ~WhileCondition
    /\ pc' = "for"
    /\ UNCHANGED <<session_state, script_run, bits, field_polygons, existing_wells_df, num_suggestions,
                   rng, potential_wells, field_idx, field_well_count,
                   attempts, potential_df, total_attempts, history,
                   demand_df>>

\* After the loop: sort, truncate, reassign identifiers, return.
Rank ==
    /\ pc = "rank"
    /\ potential_df' = ranked(potential_wells)
    /\ pc' = "done"
    /\ history' = Append(history,
                         Returned(field_polygons, existing_wells_df,
                                  num_suggestions, ranked(potential_wells)))
    /\ UNCHANGED <<session_state, script_run, bits, field_polygons, existing_wells_df, num_suggestions,
                   rng, potential_wells, field_idx, field_well_count,
                   attempts, total_attempts, demand_df>>

Body ==
    \/ ForField
    \/ Attempt
    \/ EndWhile
    \/ Rank

Next ==
    \/ generate_potential_wells
    \/ Body

\* One call, with any arguments.
Spec == Init /\ [][Next]_vars

\* The same; a call that has started runs on (the code is synchronous and
\* single-threaded).
FairSpec == Spec /\ WF_vars(Body)

\* A call of generate_potential_wells whose result is passed on to
\* calculate_water_demand_gap.
generate_for_demand_gap ==
    /\ pc = "idle"
    /\ \E a \in GapArgs : Enter(a[1], a[2], a[3])

\* As calculate_water_demand_gap, but the wells that did not survive are
\* dropped from the table of existing wells in place.
calculate_water_demand_gap_in_place ==
    /\ pc = "done"
    /\ demand_df' =
           IF field_polygons = << >> THEN << >>
           ELSE sort_gap_values(
                    demand_analysis(field_polygons, Len(field_polygons),
                                    existing_wells_df, potential_df))
    /\ existing_wells_df' =
           SelectSeq(existing_wells_df, LAMBDA w : w.survived = TRUE)
    /\ pc' = "gap"
    /\ UNCHANGED <<session_state, script_run, bits, field_polygons, num_suggestions,
                   rng, potential_wells, field_idx, field_well_count,
                   attempts, potential_df, total_attempts, history>>

\* calculate_water_demand_gap(field_polygons, existing_wells_df,
\* potential_df), with the fields and wells of the call that returned
\* potential_df.
calculate_water_demand_gap ==
    /\ pc = "done"
    /\ demand_df' =
           IF field_polygons = << >> THEN << >>
           ELSE sort_gap_values(
                    demand_analysis(field_polygons, Len(field_polygons),
                                    existing_wells_df, potential_df))
    /\ pc' = "gap"
    /\ UNCHANGED <<session_state, script_run, bits, field_polygons, existing_wells_df, num_suggestions,
                   rng, potential_wells, field_idx, field_well_count,
                   attempts, potential_df, total_attempts, history>>

NextGap ==
    \/ generate_for_demand_gap
    \/ Body
    \/ calculate_water_demand_gap

\* One call of generate_potential_wells, then the demand-gap analysis of
\* its result.
SpecGap == Init /\ [][NextGap]_vars

NextRepeat ==
    \/ call_again
    \/ Body

\* Calls one after the other.
SpecRepeat == Init /\ [][NextRepeat]_vars

(***************************************************************************)
(* One run of the dashboard script on a page with the standard layout.     *)
(***************************************************************************)
\* main() from the state variables (rain_data = None, rain_stats = None) to
\* the page renderer; for the rain page render_water_survival.  The inputs
\* of a run are the page selected, the last click that the map reports,
\* whether the rain service has a client, whether its requests succeed, and
\* whether the button of the rain page is pressed.  A run that st.rerun()
\* ends is followed by a run with the same page and click.
main ==
    /\ \E selected \in Pages, last_click \in Clicks \cup {None},
          client, ok_click, ok_button, button \in BOOLEAN :
          /\ script_run.rerun =>
                /\ selected = script_run.selected
                /\ last_click = script_run.last_click
                /\ ~button
          /\ LET on_rain_page == selected = "Rain Data Analysis"
                 \* isinstance(last_click, dict) and lat and lng
                 clicked == /\ last_click # None
                            /\ last_click.lat # 0
                            /\ last_click.lng # 0
                 lat == last_click.lat
                 lng == last_click.lng
                 \* "last_rain_coordinates" in st.session_state and
                 \* distance_km < 1.0
                 using_cached ==
                     /\ clicked
                     /\ on_rain_page
                     /\ "last_rain_coordinates" \in DOMAIN session_state
                     /\ calculate_distance_km(
                            lat, lng,
                            session_state["last_rain_coordinates"][1],
                            session_state["last_rain_coordinates"][2])
                          < cache_range_km * 1000000
                 should_query_rain == clicked /\ on_rain_page /\ ~using_cached
                 queried == should_query_rain /\ client
                 rain_data == IF queried THEN get_rain_data(lat, lng, ok_click)
                              ELSE None
                 rain_stats == IF rain_data # None
                               THEN get_rain_statistics(rain_data)
                               ELSE None
                 state_1 ==
                     IF rain_data # None
                     THEN setitem(session_state, "last_rain_coordinates",
                                  <<lat, lng>>)
                     ELSE IF clicked /\ ~on_rain_page
                     THEN setitem(session_state, "last_clicked_coordinates",
                                  <<lat, lng>>)
                     ELSE session_state
                 \* render_water_survival: the button and its request
                 offered == /\ on_rain_page
                            /\ rain_data = None
                            /\ "last_clicked_coordinates" \in DOMAIN state_1
                 button_queried == offered /\ button /\ client
                 clicked_lat == state_1["last_clicked_coordinates"][1]
                 clicked_lng == state_1["last_clicked_coordinates"][2]
                 button_data ==
                     IF button_queried
                     THEN get_rain_data(clicked_lat, clicked_lng, ok_button)
                     ELSE None
                 rerun == button_data # None
                 shown == IF button_queried THEN button_data ELSE rain_data
             IN  /\ session_state' =
                        IF rerun
                        THEN setitem(state_1, "last_rain_coordinates",
                                     <<clicked_lat, clicked_lng>>)
                        ELSE state_1
                 /\ script_run' =
                        [selected |-> selected,
                         last_click |-> last_click,
                         using_cached |-> using_cached,
                         queried |-> IF queried
                                     THEN [lat |-> lat, lng |-> lng]
                                     ELSE None,
                         \* the arguments of render_water_survival
                         rain_data |-> rain_data,
                         rain_stats |-> rain_stats,
                         button_queried |->
                             IF button_queried
                             THEN [lat |-> clicked_lat, lng |-> clicked_lng]
                             ELSE None,
                         \* chart_rain_statistics(rain_data, rain_stats)
                         charted |-> IF on_rain_page /\ ~rerun THEN shown
                                     ELSE None,
                         rerun |-> rerun]
    /\ UNCHANGED <<bits, pc, field_polygons, existing_wells_df,
                   num_suggestions, rng, potential_wells, field_idx,
                   field_well_count, attempts, potential_df, total_attempts,
                   history, demand_df>>

NextRain == main

\* The start of a session of the dashboard: no key in the session state and
\* no run yet.  The script draws nothing from the generator of the site
\* sampling, whose outputs are fixed here.
InitRain ==
    /\ Init
    /\ bits = [i \in 0..(RngPeriod - 1) |-> 0]

\* Runs of the dashboard script, one after the other.
SpecRain == InitRain /\ [][NextRain]_vars

(***************************************************************************)
(* Properties.                                                             *)
(***************************************************************************)
Running == pc \in {"for", "while", "rank"}

\* The rows of a table as a set of indices.
Rows(df) == 1..Len(df)

\* A site without its identifier.
Strip(w) == [w EXCEPT !.potential_id = << >>]

\* The accepted candidates that the returned table does not hold.
Dropped == {i \in Rows(potential_wells) :
               \A j \in Rows(potential_df) :
                   Strip(potential_df[j]) # Strip(potential_wells[i])}

\* The number written in an identifier, and its well-formedness.
RECURSIVE DigitsValue(_)
DigitsValue(ds) ==
    IF ds = << >> THEN 0
    ELSE 10 * DigitsValue(SubSeq(ds, 1, Len(ds) - 1)) + ds[Len(ds)]

IdNumber(id) == DigitsValue(Tail(id))

WellFormedId(id) ==
    /\ Len(id) >= 5
    /\ Head(id) = "POT-"
    /\ \A k \in 2..Len(id) : id[k] \in 0..9

\* The number of accepted candidates of the field at index k.
AcceptedFor(k) ==
    Cardinality({i \in Rows(potential_wells) : potential_wells[i].source_idx = k})

\* C1: no returned site lies inside the field it was generated for, by the
\* ray-casting test against that field's ring.
C1_NoSiteInsideOwnField ==
    \A i \in Rows(potential_df) :
        ~point_in_polygon(potential_df[i].lat, potential_df[i].lon,
                          field_polygons[potential_df[i].source_idx].coordinates)

\* C2: no returned site lies inside any field polygon of the input list.
C2_NoSiteInsideAnyField ==
    \A i \in Rows(potential_df) :
        \A k \in Rows(field_polygons) :
            Len(field_polygons[k].coordinates) >= 3 =>
                ~point_in_polygon(potential_df[i].lat, potential_df[i].lon,
                                  field_polygons[k].coordinates)

\* C3: at every point of the sampling loop and in the result, two distinct
\* accepted sites are at least 0.0005 degree apart.
C3_MinimumSpacing ==
    /\ \A i, j \in Rows(potential_wells) :
          i # j => Dist2(potential_wells[i].lat, potential_wells[i].lon,
                         potential_wells[j].lat, potential_wells[j].lon)
                       >= 50 * 50
    /\ \A i, j \in Rows(potential_df) :
          i # j => Dist2(potential_df[i].lat, potential_df[i].lon,
                         potential_df[j].lat, potential_df[j].lon)
                       >= 50 * 50

\* A candidate of the second field is about to be rejected for being too
\* close to an accepted site of the first field, which is not the last one
\* accepted.
C3_Witness ==
    /\ pc = "while"
    /\ WhileCondition
    /\ Len(potential_wells) >= 2
    /\ LET coords == field_polygons[field_idx].coordinates
       IN  \E i \in Rows(potential_wells) :
              /\ i < Len(potential_wells)
              /\ potential_wells[i].source_idx # field_idx
              /\ Dist2(potential_wells[i].lat, potential_wells[i].lon,
                       pot_lat(coords), pot_lon(coords)) < 50 * 50

\* C4: every returned site is at least 0.001 degree from every existing
\* well (the same holds of every accepted candidate).
C4_ClearOfExistingWells ==
    \A i \in Rows(existing_wells_df) :
        /\ \A j \in Rows(potential_df) :
              Dist2(existing_wells_df[i].lat, existing_wells_df[i].lon,
                    potential_df[j].lat, potential_df[j].lon) >= 100 * 100
        /\ \A j \in Rows(potential_wells) :
              Dist2(existing_wells_df[i].lat, existing_wells_df[i].lon,
                    potential_wells[j].lat, potential_wells[j].lon) >= 100 * 100

\* One field with a quota of one: the site returned was accepted after
\* candidates had been rejected, which only the existing wells can cause.
C4_Witness ==
    /\ pc = "done"
    /\ existing_wells_df # << >>
    /\ Len(field_polygons) = 1
    /\ num_suggestions = 1
    /\ Len(potential_df) = 1
    /\ total_attempts > 1

\* C5: the number of sites returned never exceeds num_suggestions.
C5_AtMostRequested ==
    pc = "done" => Len(potential_df) <= num_suggestions

\* More fields than requested sites, more accepted candidates than
\* requested, and the result is cut to the requested number.
C5_Witness ==
    /\ pc = "done"
    /\ num_suggestions >= 1
    /\ Len(field_polygons) > num_suggestions
    /\ Len(potential_wells) > num_suggestions
    /\ Len(potential_df) = num_suggestions

\* C6: the returned table is ordered by non-increasing priority_score, and
\* no accepted candidate that was dropped has a score greater than that of
\* a candidate that was kept.
C6_RankedBestKept ==
    pc = "done" =>
        /\ \A i, j \in Rows(potential_df) :
              i < j => potential_df[i].priority_score
                           >= potential_df[j].priority_score
        /\ \A d \in Dropped : \A k \in Rows(potential_df) :
              potential_wells[d].priority_score <= potential_df[k].priority_score

\* A candidate accepted first was dropped for one accepted later with a
\* greater score.
C6_Witness ==
    /\ pc = "done"
    /\ Len(potential_df) >= 1
    /\ \E d \in Dropped : \E k \in Rows(potential_wells) :
          /\ d < k
          /\ k \notin Dropped
          /\ potential_wells[d].priority_score < potential_wells[k].priority_score

\* C7: the identifiers of the n returned sites are POT-0001 .. POT-n,
\* pairwise distinct, the site at rank i having number i.
C7_SequentialIds ==
    pc = "done" =>
        /\ \A i \in Rows(potential_df) :
              /\ WellFormedId(potential_df[i].potential_id)
              /\ Len(potential_df[i].potential_id) = 5
              /\ IdNumber(potential_df[i].potential_id) = i
        /\ \A i, j \in Rows(potential_df) :
              i # j => potential_df[i].potential_id # potential_df[j].potential_id
        /\ \A i, j \in Rows(potential_df) :
              IdNumber(potential_df[i].potential_id)
                  < IdNumber(potential_df[j].potential_id)
              => potential_df[i].priority_score >= potential_df[j].priority_score

\* A returned site whose identifier differs from the one it was accepted
\* with.
C7_Witness ==
    /\ pc = "done"
    /\ Len(potential_df) >= 2
    /\ \E i \in Rows(potential_wells) : \E j \in Rows(potential_df) :
          /\ Strip(potential_wells[i]) = Strip(potential_df[j])
          /\ potential_wells[i].potential_id # potential_df[j].potential_id

\* C8: two calls with identical arguments return identical tables,
\* whatever calls were made before or in between.
C8_Deterministic ==
    \A i, j \in Rows(history) :
        history[i].args = history[j].args
            => history[i].result = history[j].result

\* Three calls: the first and the third with the same arguments and a
\* non-empty result, the second with other arguments and another result.
C8_Witness ==
    /\ Len(history) = 3
    /\ history[1].args = history[3].args
    /\ history[2].args # history[1].args
    /\ history[1].result # << >>
    /\ history[2].result # history[1].result

\* C9: the sampler terminates: every iteration consumes one attempt, a
\* field gets at most wells_per_field * 20 attempts, the call makes at most
\* fieldCount * wells_per_field * 20 attempts, and a call that has started
\* returns.
C9_Terminates ==
    /\ [](Running =>
            /\ attempts <= Max(1, num_suggestions \div Len(field_polygons)) * 20
            /\ total_attempts
                 <= Len(field_polygons)
                      * Max(1, num_suggestions \div Len(field_polygons)) * 20)
    /\ [][(pc = "while" /\ pc' = "while") =>
             /\ attempts' = attempts + 1
             /\ total_attempts' = total_attempts + 1]_vars
    /\ []<>(~Running)

\* A call has returned after every attempt of its budget was made.
C9_Witness ==
    /\ pc = "done"
    /\ field_polygons # << >>
    /\ total_attempts = Len(field_polygons) * wells_per_field * 20

\* C10: with the quota max(1, num_suggestions div number of fields), no
\* field ever has more accepted sites than the quota, and sampling for a
\* field stops as soon as it has reached the quota.
C10_QuotaPerField ==
    /\ [](Running =>
            /\ \A k \in Rows(field_polygons) :
                  AcceptedFor(k)
                      <= Max(1, num_suggestions \div Len(field_polygons))
            /\ pc = "while" =>
                  field_well_count = AcceptedFor(field_idx))
    /\ [][(pc = "while" /\ AcceptedFor(field_idx)
                             >= Max(1, num_suggestions \div Len(field_polygons)))
             => /\ pc' = "for"
                /\ potential_wells' = potential_wells
                /\ attempts' = attempts]_vars

\* Two fields and a quota of two, both fields with two accepted sites.
C10_Witness ==
    /\ pc = "done"
    /\ Len(field_polygons) = 2
    /\ num_suggestions = 4
    /\ AcceptedFor(1) = 2
    /\ AcceptedFor(2) = 2

\* The ring of the field at index k of the list, empty where the field has
\* none.
Ring(k) ==
    IF "coordinates" \in DOMAIN field_polygons[k]
    THEN field_polygons[k].coordinates
    ELSE << >>

\* C11: a field whose ring is missing, empty or has fewer than 3 vertices is
\* skipped: no accepted or returned site refers to it, passing it consumes
\* no attempt and no random number, and the loop goes on to the fields after
\* it, each field with a ring of 3 vertices or more being sampled in turn.
C11_UnusableRingSkipped ==
    /\ [](/\ \A i \in Rows(potential_wells) :
               Len(Ring(potential_wells[i].source_idx)) >= 3
          /\ \A i \in Rows(potential_df) :
               Len(Ring(potential_df[i].source_idx)) >= 3
          /\ (pc \in {"rank", "done", "gap"} /\ field_polygons # << >>)
                => field_idx = Len(field_polygons))
    /\ [][(pc = "for" /\ field_idx < Len(field_polygons)) =>
             /\ field_idx' = field_idx + 1
             /\ IF Len(Ring(field_idx + 1)) >= 3
                THEN pc' = "while" /\ attempts' = 0 /\ field_well_count' = 0
                ELSE /\ pc' = "for"
                     /\ potential_wells' = potential_wells
                     /\ total_attempts' = total_attempts
                     /\ rng' = rng]_vars

\* A call has returned whose list holds a field without a ring and a field
\* with a ring of two vertices, and after them a field that a returned site
\* was generated for.
C11_Witness ==
    /\ pc = "done"
    /\ \E k, l, j \in Rows(field_polygons) :
          /\ k < j
          /\ l < j
          /\ "coordinates" \notin DOMAIN field_polygons[k]
          /\ Len(Ring(l)) = 2
          /\ \E i \in Rows(potential_df) : potential_df[i].source_idx = j

\* C12: in every record of the demand-gap analysis the water gap and the
\* gap after drilling are not negative, and the gap after drilling is not
\* greater than the water gap.
C12_GapsOrdered ==
    \A i \in Rows(demand_df) :
        /\ demand_df[i].water_gap_m3_day >= 0
        /\ demand_df[i].gap_after_drilling >= 0
        /\ demand_df[i].gap_after_drilling <= demand_df[i].water_gap_m3_day

\* One record of a field whose nearby wells supply more than it demands and
\* that has a potential well, one of a field whose potential wells close a
\* part of its gap.
C12_Witness ==
    /\ pc = "gap"
    /\ \E i \in Rows(demand_df) :
          /\ demand_df[i].current_supply_m3_day
                 > demand_df[i].water_demand_m3_day
          /\ demand_df[i].potential_wells_available >= 1
          /\ demand_df[i].water_gap_m3_day = 0
    /\ \E i \in Rows(demand_df) :
          /\ demand_df[i].gap_after_drilling > 0
          /\ demand_df[i].gap_after_drilling < demand_df[i].water_gap_m3_day

\* The level that the rule of C13 gives for a gap percentage of which it is
\* known whether it is above 70, 50 and 30, and a number of sites.
LevelOf(over_70, over_50, over_30, sites) ==
    IF over_70 /\ sites >= 1 THEN "Critical"
    ELSE IF over_50 /\ sites >= 1 THEN "High"
    ELSE IF over_30 THEN "Medium"
    ELSE "Low"

\* Whether the gap percentage of the field of record r, before it is rounded
\* for the record, is above 10 * tens.
ExactGapAbove(r, tens) ==
    LET coords == Ring(r.source_idx)
        demand == field_height(coords) * field_width(coords)
        supply ==
            Cardinality({w \in Rows(existing_wells_df) :
                            /\ existing_wells_df[w].lat # NaN
                            /\ existing_wells_df[w].lon # NaN
                            /\ existing_wells_df[w].survived
                            /\ Dist2(existing_wells_df[w].lat,
                                     existing_wells_df[w].lon,
                                     centroid_lat(coords), centroid_lon(coords))
                                   < 4500 * 4500})
        \* demand d and gap g in m3 per day, over 640000
        d == (demand \div 100) * 12321
        g == Max(0, d - supply * 64 * 640000)
    IN  d > 0 /\ 10 * g > tens * d

RecordsOf(k) == {i \in Rows(demand_df) : demand_df[i].source_idx = k}

\* C14: a field whose bounding box has no area (all vertices on one latitude
\* or on one longitude) has a record with demand 0, gap 0, gap percentage 0
\* and priority Low, whatever wells are nearby and whatever sites it has.
C14_ZeroAreaIsLow ==
    pc = "gap" =>
        \A k \in Rows(field_polygons) :
            LET coords == Ring(k)
            IN  (/\ Len(coords) >= 3
                 /\ \/ \A a, b \in Rows(coords) : coords[a][1] = coords[b][1]
                    \/ \A a, b \in Rows(coords) : coords[a][2] = coords[b][2])
                => /\ RecordsOf(k) # {}
                   /\ \A i \in RecordsOf(k) :
                         /\ demand_df[i].water_demand_m3_day = 0
                         /\ demand_df[i].water_gap_m3_day = 0
                         /\ demand_df[i].gap_percentage = 0
                         /\ demand_df[i].priority_level = "Low"

\* The record of a field of three vertices on one latitude, with a surviving
\* well nearby and a site of its own.
C14_Witness ==
    /\ pc = "gap"
    /\ \E i \in Rows(demand_df) :
          LET coords == Ring(demand_df[i].source_idx)
          IN  /\ \A a, b \in Rows(coords) : coords[a][1] = coords[b][1]
              /\ demand_df[i].successful_wells_nearby >= 1
              /\ demand_df[i].potential_wells_available >= 1
              /\ demand_df[i].potential_additional_supply_m3_day > 0

NoFieldQualifies ==
    /\ field_polygons # << >>
    /\ \A k \in Rows(field_polygons) : Len(Ring(k)) < 3

C17_NonFiniteRaises ==
    (\E w \in Rows(existing_wells_df) :
        existing_wells_df[w].lat = NaN \/ existing_wells_df[w].lon = NaN)
    => pc \notin {"done", "gap"}

\* The ranked sites that were generated for the field at index k.
SitesOf(k) == {j \in Rows(potential_df) : potential_df[j].source_idx = k}

\* C18: potential_wells_available of a field's record is the number of
\* ranked sites generated for that very field, and every ranked site is
\* counted in exactly one record, whatever the names of the fields.
C18_SitesCountedForOwnField ==
    pc = "gap" =>
        /\ \A i \in Rows(demand_df) :
              demand_df[i].potential_wells_available
                  = Cardinality(SitesOf(demand_df[i].source_idx))
        /\ SumRows(demand_df, Rows(demand_df), "potential_wells_available")
              = Len(potential_df)

\* C19: the records are returned in the order of non-increasing
\* gap_percentage.
C19_RecordsByGapDescending ==
    \A i, j \in Rows(demand_df) :
        i < j => demand_df[i].gap_percentage >= demand_df[j].gap_percentage

\* Two records, that of the second field first, with the greater
\* percentage.
C19_Witness ==
    /\ pc = "gap"
    /\ Len(demand_df) = 2
    /\ demand_df[1].source_idx > demand_df[2].source_idx
    /\ demand_df[1].gap_percentage > demand_df[2].gap_percentage

\* Whether a site's attributes lie in the ranges of its depth category:
\* depth in metres, probability in hundredths, yield in tenths of m3/h.
InCategoryRanges(w) ==
    /\ w.depth_category \in {"shallow", "medium", "deep"}
    /\ w.success_probability >= 0
    /\ w.success_probability <= 100
    /\ w.depth_category = "shallow" =>
          /\ w.recommended_depth_m >= 40 /\ w.recommended_depth_m <= 60
          /\ w.success_probability >= 55 /\ w.success_probability <= 70
          /\ w.expected_water_yield_m3h >= 40
          /\ w.expected_water_yield_m3h <= 70
    /\ w.depth_category = "medium" =>
          /\ w.recommended_depth_m >= 60 /\ w.recommended_depth_m <= 100
          /\ w.success_probability >= 70 /\ w.success_probability <= 85
          /\ w.expected_water_yield_m3h >= 70
          /\ w.expected_water_yield_m3h <= 120
    /\ w.depth_category = "deep" =>
          /\ w.recommended_depth_m >= 100 /\ w.recommended_depth_m <= 150
          /\ w.success_probability >= 75 /\ w.success_probability <= 90
          /\ w.expected_water_yield_m3h >= 100
          /\ w.expected_water_yield_m3h <= 160

\* C20: every returned site (and every accepted candidate) has one of the
\* three depth categories, a success probability in [0, 1] and depth,
\* probability and yield in the ranges of its category.
C20_AttributesInCategoryRanges ==
    /\ \A i \in Rows(potential_df) : InCategoryRanges(potential_df[i])
    /\ \A i \in Rows(potential_wells) : InCategoryRanges(potential_wells[i])

\* A returned table with a shallow, a medium and a deep site.
C20_Witness ==
    /\ pc = "done"
    /\ \E i, j, k \in Rows(potential_df) :
          /\ potential_df[i].depth_category = "shallow"
          /\ potential_df[j].depth_category = "medium"
          /\ potential_df[k].depth_category = "deep"

\* C21: the depth of every returned site is in the range that the discovery
\* page shows for its depth category: below 60 m for shallow, 60 to 80 m for
\* medium, above 80 m for deep.
C21_DepthLabelsAgree ==
    \A i \in Rows(potential_df) :
        depth_label_holds(potential_df[i].depth_category,
                          potential_df[i].recommended_depth_m)

\* C22: in every record, potential_additional_supply is 8 times the sum of
\* the yields of the ranked sites generated for the record's field, and
\* gap_after_drilling is max(0, water_gap - potential_additional_supply);
\* without such a site the supply is 0 and gap_after_drilling is water_gap.
C22_SupplyOfOwnSites ==
    pc = "gap" =>
        \A i \in Rows(demand_df) :
            LET r == demand_df[i]
                own == SitesOf(r.source_idx)
            IN  /\ r.potential_additional_supply_m3_day
                      = 8 * SumRows(potential_df, own, "expected_water_yield_m3h")
                /\ r.gap_after_drilling
                      = Max(0, r.water_gap_m3_day
                                 - r.potential_additional_supply_m3_day)
                /\ own = {} =>
                      /\ r.potential_additional_supply_m3_day = 0
                      /\ r.gap_after_drilling = r.water_gap_m3_day

\* The existing wells at less than 0.045 degree from the mean of the
\* vertices of the field of record r.
WellsWithinReach(r) ==
    LET coords == Ring(r.source_idx)
        n == Len(coords)
        mean_lat == SumSeq([v \in 1..n |-> coords[v][1]]) \div n
        mean_lon == SumSeq([v \in 1..n |-> coords[v][2]]) \div n
    IN  {w \in Rows(existing_wells_df) :
            /\ existing_wells_df[w].lat # NaN
            /\ existing_wells_df[w].lon # NaN
            /\ (existing_wells_df[w].lat - mean_lat)
                    * (existing_wells_df[w].lat - mean_lat)
                 + (existing_wells_df[w].lon - mean_lon)
                    * (existing_wells_df[w].lon - mean_lon)
               < 4500 * 4500}

\* C23: in every record, existing_wells_nearby is the number of existing
\* wells at less than 0.045 degree from the field's vertex-mean centroid,
\* successful_wells_nearby the number of those that survived (so not more),
\* and current_supply is successful_wells_nearby * 8 * 8 m3 per day;
\* without existing wells all three are 0.
C23_NearbyWellsAndSupply ==
    pc = "gap" =>
        \A i \in Rows(demand_df) :
            LET r == demand_df[i]
            IN  /\ r.existing_wells_nearby = Cardinality(WellsWithinReach(r))
                /\ r.successful_wells_nearby
                      = Cardinality({w \in WellsWithinReach(r) :
                                        existing_wells_df[w].survived})
                /\ r.successful_wells_nearby <= r.existing_wells_nearby
                /\ r.current_supply_m3_day
                      = r.successful_wells_nearby * 8 * 8 * 10
                /\ existing_wells_df = << >> =>
                      /\ r.existing_wells_nearby = 0
                      /\ r.successful_wells_nearby = 0
                      /\ r.current_supply_m3_day = 0

\* A record of a field with four existing wells: two are nearby, one of them
\* survived; of the other two one is at 0.045 degree exactly.
C23_Witness ==
    /\ pc = "gap"
    /\ Len(existing_wells_df) = 4
    /\ \E i \in Rows(demand_df) :
          /\ demand_df[i].existing_wells_nearby = 2
          /\ demand_df[i].successful_wells_nearby = 1
          /\ demand_df[i].current_supply_m3_day = 640
          /\ \E w \in Rows(existing_wells_df) :
                Dist2(existing_wells_df[w].lat, existing_wells_df[w].lon,
                      centroid_lat(Ring(demand_df[i].source_idx)),
                      centroid_lon(Ring(demand_df[i].source_idx)))
                    = 4500 * 4500

\* The field being sampled has used up its attempts with fewer accepted
\* sites than its quota.
Exhausted ==
    /\ pc = "while"
    /\ attempts = Max(1, num_suggestions \div Len(field_polygons)) * 20
    /\ AcceptedFor(field_idx) < Max(1, num_suggestions \div Len(field_polygons))

\* C24: a field that has used up its attempts with fewer sites than its
\* quota is left for the next field without a site being lost; every field
\* starts with zero attempts and zero accepted sites and is sampled as long
\* as its own attempts and quota last; and the call returns, with the
\* accepted sites (cut to num_suggestions) as its result.
C24_ExhaustionIsLocal ==
    /\ [][Exhausted => (pc' = "for" /\ potential_wells' = potential_wells)]_vars
    /\ [][(pc = "for" /\ pc' = "while") =>
             /\ attempts' = 0
             /\ field_well_count' = 0
             /\ AcceptedFor(field_idx)' = 0]_vars
    /\ [][(/\ pc = "while"
            /\ attempts < Max(1, num_suggestions \div Len(field_polygons)) * 20
            /\ AcceptedFor(field_idx)
                  < Max(1, num_suggestions \div Len(field_polygons)))
             => (pc' = "while" /\ attempts' = attempts + 1)]_vars
    /\ [](pc = "done" =>
            /\ Len(potential_df) = Min(Len(potential_wells), num_suggestions)
            /\ \A j \in Rows(potential_df) : \E i \in Rows(potential_wells) :
                  Strip(potential_df[j]) = Strip(potential_wells[i]))
    /\ [](Exhausted => <>(pc = "done"))

\* A call has returned: its first field ended with fewer sites than the
\* quota, its second field with the quota, and sites of both are returned.
C24_Witness ==
    /\ pc = "done"
    /\ Len(field_polygons) = 2
    /\ Len(Ring(1)) >= 3
    /\ AcceptedFor(1) < wells_per_field
    /\ AcceptedFor(2) = wells_per_field
    /\ \E j \in Rows(potential_df) : potential_df[j].source_idx = 2

\* C25: an accepted site keeps all its values while other sites are
\* sampled, and every site of the returned table is an accepted site with
\* the values it was accepted with, the identifier apart; no accepted site
\* is returned twice.
C25_SitesImmutable ==
    /\ [][(Running /\ Running') =>
             \A i \in Rows(potential_wells) :
                 /\ i \in Rows(potential_wells')
                 /\ potential_wells'[i] = potential_wells[i]]_vars
    /\ [](pc = "done" =>
            /\ \A j \in Rows(potential_df) : \E i \in Rows(potential_wells) :
                  LET a == potential_wells[i]
                      b == potential_df[j]
                  IN  /\ b.lat = a.lat
                      /\ b.lon = a.lon
                      /\ b.field_name = a.field_name
                      /\ b.region = a.region
                      /\ b.depth_category = a.depth_category
                      /\ b.recommended_depth_m = a.recommended_depth_m
                      /\ b.success_probability = a.success_probability
                      /\ b.expected_water_yield_m3h = a.expected_water_yield_m3h
                      /\ b.estimated_cost_thb = a.estimated_cost_thb
                      /\ b.drilling_cost_thb = a.drilling_cost_thb
                      /\ b.priority_score = a.priority_score
                      /\ b.source_idx = a.source_idx
            /\ \A j, k \in Rows(potential_df) :
                  j # k => (potential_df[j].lat # potential_df[k].lat
                            \/ potential_df[j].lon # potential_df[k].lon))

\* A call in which the site accepted second is the only one returned: it was
\* sorted before the site accepted first, which was cut, and its identifier
\* was reassigned.
C25_Witness ==
    /\ pc = "done"
    /\ Len(potential_wells) = 2
    /\ Len(potential_df) = 1
    /\ Strip(potential_df[1]) = Strip(potential_wells[2])
    /\ potential_df[1].potential_id # potential_wells[2].potential_id

\* C27: for every returned site drilling_cost_thb is recommended_depth_m *
\* 1200 and estimated_cost_thb exceeds it by a pump cost of 30000 to 60000;
\* both are whole numbers.
C27_CostBreakdown ==
    \A i \in Rows(potential_df) :
        /\ potential_df[i].drilling_cost_thb \in Nat
        /\ potential_df[i].estimated_cost_thb \in Nat
        /\ potential_df[i].drilling_cost_thb
              = potential_df[i].recommended_depth_m * 1200
        /\ potential_df[i].estimated_cost_thb - potential_df[i].drilling_cost_thb
              >= 30000
        /\ potential_df[i].estimated_cost_thb - potential_df[i].drilling_cost_thb
              <= 60000

\* A returned table with a shallow site and a deep site whose pump costs
\* differ.
C27_Witness ==
    /\ pc = "done"
    /\ \E i, j \in Rows(potential_df) :
          /\ potential_df[i].recommended_depth_m < 60
          /\ potential_df[j].recommended_depth_m >= 100
          /\ potential_df[i].estimated_cost_thb - potential_df[i].drilling_cost_thb
                # potential_df[j].estimated_cost_thb
                    - potential_df[j].drilling_cost_thb

\* C29: when num_suggestions is at least the number of fields, the accepted
\* candidates are at most num_suggestions, none is cut and the returned
\* table holds them all; a candidate is cut only when there are more fields
\* than requested sites.
C29_TruncationOnlyWithMoreFields ==
    pc = "done" =>
        /\ num_suggestions >= Len(field_polygons) =>
              /\ Len(field_polygons)
                    * (num_suggestions \div Max(1, Len(field_polygons)))
                    <= num_suggestions
              /\ Len(potential_wells) <= num_suggestions
              /\ Len(potential_df) = Len(potential_wells)
              /\ Dropped = {}
        /\ Dropped # {} => Len(field_polygons) > num_suggestions

\* A call for three sites on two fields: each field has its share of one
\* site, and both accepted sites are returned.
C29_Witness ==
    /\ pc = "done"
    /\ Len(field_polygons) = 2
    /\ num_suggestions = 3
    /\ Len(potential_wells) = 2
    /\ Len(potential_df) = 2
    /\ Dropped = {}

\* C26: from the entry of generate_potential_wells to its return, and over
\* calculate_water_demand_gap, the list of field polygons and the table of
\* existing wells keep their contents; calculate_water_demand_gap leaves the
\* table of potential wells as it was returned.
C26_InputsUnchanged ==
    [][/\ pc # "idle" =>
            /\ field_polygons' = field_polygons
            /\ existing_wells_df' = existing_wells_df
       /\ pc = "done" => potential_df' = potential_df]_vars

\* An analysis that has returned records for a call with fields, with
\* existing wells of which one did not survive, and with returned sites.
C26_Witness ==
    /\ pc = "gap"
    /\ demand_df # << >>
    /\ potential_df # << >>
    /\ \E i \in Rows(existing_wells_df) : existing_wells_df[i].survived = FALSE
    /\ \E i \in Rows(field_polygons) : Len(Ring(i)) >= 3

\* The water gap of the field of record r in m3 per day, over 640000, before
\* it is rounded for the record.
ExactGap(r) ==
    LET coords == Ring(r.source_idx)
        demand == field_height(coords) * field_width(coords)
        supply ==
            Cardinality({w \in Rows(existing_wells_df) :
                            /\ existing_wells_df[w].lat # NaN
                            /\ existing_wells_df[w].lon # NaN
                            /\ existing_wells_df[w].survived
                            /\ Dist2(existing_wells_df[w].lat,
                                     existing_wells_df[w].lon,
                                     centroid_lat(coords), centroid_lon(coords))
                                   < 4500 * 4500})
    IN  Max(0, (demand \div 100) * 12321 - supply * 64 * 640000)

\* C30 as stated: every record has a gap percentage from 0 to 100 and a
\* water gap of at most its water demand, and its gap percentage is 0
\* exactly when its water gap is 0.
C30_PercentageZeroIffGapZero ==
    pc = "gap" =>
        \A i \in Rows(demand_df) :
            /\ demand_df[i].gap_percentage >= 0
            /\ demand_df[i].gap_percentage <= 1000
            /\ demand_df[i].water_gap_m3_day <= demand_df[i].water_demand_m3_day
            /\ demand_df[i].gap_percentage = 0
                  <=> demand_df[i].water_gap_m3_day = 0

\* C30: every record has a gap percentage from 0 to 100 and a water gap of
\* at most its water demand; a field whose gap is 0 before rounding has the
\* recorded gap 0 and the recorded percentage 0, and a record with a gap or
\* a percentage above 0 is of a field whose gap before rounding is above 0.
C30_PercentageAndGapBounds ==
    pc = "gap" =>
        \A i \in Rows(demand_df) :
            /\ demand_df[i].gap_percentage >= 0
            /\ demand_df[i].gap_percentage <= 1000
            /\ demand_df[i].water_gap_m3_day >= 0
            /\ demand_df[i].water_gap_m3_day <= demand_df[i].water_demand_m3_day
            /\ ExactGap(demand_df[i]) = 0 =>
                  /\ demand_df[i].water_gap_m3_day = 0
                  /\ demand_df[i].gap_percentage = 0
            /\ (demand_df[i].water_gap_m3_day > 0
                   \/ demand_df[i].gap_percentage > 0)
                  => ExactGap(demand_df[i]) > 0

\* The record of a field whose gap is recorded as 0.0 m3 per day with a gap
\* percentage of 100.0: the gap is above 0 and below 0.05 before rounding.
C30_Witness ==
    /\ pc = "gap"
    /\ \E i \in Rows(demand_df) :
          /\ ExactGap(demand_df[i]) > 0
          /\ demand_df[i].water_gap_m3_day = 0
          /\ demand_df[i].gap_percentage = 1000

\* A run of the rain page whose click was within 1 km of the coordinates of
\* the last successful rain query.
CachedClick == script_run.using_cached

\* C28: on a click within 1 km of the coordinates of the last successful
\* rain query the run makes no new query for the click and passes the rain
\* data and statistics of that query to the renderer; the cached coordinates
\* change only in a run that fetched rain data successfully.
C28_CachedClickShowsCachedData ==
    /\ [](CachedClick =>
            /\ script_run.queried = None
            /\ script_run.rain_data # None
            /\ script_run.rain_stats # None)
    /\ [][("last_rain_coordinates" \in DOMAIN session_state'
             /\ ("last_rain_coordinates" \in DOMAIN session_state =>
                    session_state'["last_rain_coordinates"]
                        # session_state["last_rain_coordinates"]))
            => script_run'.rain_data # None \/ script_run'.rerun]_vars

\* The parts of C28 that the script keeps: no query for a click within
\* 1 km, whose run passes no rain data at all to the renderer, and cached
\* coordinates that are those of a successful query.
C28_CachedClickQueriesNothing ==
    /\ [](CachedClick =>
            /\ script_run.queried = None
            /\ script_run.rain_data = None
            /\ script_run.rain_stats = None)
    /\ [][("last_rain_coordinates" \in DOMAIN session_state'
             /\ ("last_rain_coordinates" \in DOMAIN session_state =>
                    session_state'["last_rain_coordinates"]
                        # session_state["last_rain_coordinates"]))
            => \/ /\ script_run'.rain_data # None
                  /\ session_state'["last_rain_coordinates"]
                        = <<script_run'.rain_data.lat, script_run'.rain_data.lng>>
               \/ /\ script_run'.rerun
                  /\ session_state'["last_rain_coordinates"]
                        = <<script_run'.button_queried.lat,
                            script_run'.button_queried.lng>>]_vars

\* A click at 0.008 degree (0.89 km) from the point of the last successful
\* query, on the rain page, with the service available.
C28_Witness ==
    /\ CachedClick
    /\ session_state["last_rain_coordinates"] = <<16000, 102000>>
    /\ script_run.last_click = [lat |-> 16008, lng |-> 102000]
    /\ script_run.charted = None

====
